---- MODULE Spec2Model ----
(***************************************************************************)
(* Model of the audio segmentation engine of main.py (class AudioSplitter).*)
(*                                                                         *)
(* Time is kept exact.  One tick is 1/(SampleRate * TicksPerSample) of a   *)
(* second, so a time is an integer number of ticks, a sample index is an   *)
(* integer, and  t * sample_rate  is the rational  t / TicksPerSample.     *)
(* Python's round() (round half to even) and int() (truncation) are        *)
(* modelled on that rational.  Binary floating-point error is not modelled.*)
(***************************************************************************)
EXTENDS Integers, Naturals, Sequences, FiniteSets, TLC

\* ---------------------------------------------------------------- bounds
SampleRate == 800          \* samples per second of the loaded audio
TicksPerSample == 2        \* resolution of requested times: 1/2 sample
MaxShortLen == 10          \* short clips: 1..MaxShortLen samples
MaxExtraLen == 2           \* long clips: SampleRate+1 .. SampleRate+MaxExtraLen samples
MaxDur == 5                \* largest requested duration, in ticks
MaxDurs == 2               \* longest custom / video duration list
MaxHalfRange == 10         \* largest search_range / 2, in ticks
MaxQuietPos == 3           \* the quiet sample, if any, is among the first ones

\* ------------------------------------------------------- program constants
LastSegmentMin == 1        \* seconds: "last_segment_duration >= 1.0"
SmartWindow == 1           \* hundredths of a second: window_size=0.01

TicksPerSecond == SampleRate * TicksPerSample

Max(a, b) == IF a >= b THEN a ELSE b
Min(a, b) == IF a <= b THEN a ELSE b

\* An optional argument: <<>> is Python's None, <<v>> is the value v.
None == << >>
Some(v) == << v >>

\* ------------------------------------------------------------ arithmetic
\* round(t * sample_rate) replaced by one more than the floor.
PyRoundAboveFloor(t) == (t \div TicksPerSample) + 1

\* round(t * sample_rate) for a time t in ticks: round half to even.
PyRound(t) ==
    LET q == t \div TicksPerSample
        r == t % TicksPerSample
    IN  IF 2 * r < TicksPerSample THEN q
        ELSE IF 2 * r > TicksPerSample THEN q + 1
        ELSE IF q % 2 = 0 THEN q ELSE q + 1

\* int(t * sample_rate) for a time t in ticks: truncation toward zero.
PyInt(t) ==
    IF t >= 0 THEN t \div TicksPerSample ELSE -((-t) \div TicksPerSample)

\* sample / sample_rate, as a time in ticks.
SampleTime(s) == s * TicksPerSample

\* math.ceil(a / b) for b # 0.
PyCeilDiv(a, b) ==
    IF b > 0 THEN -((-a) \div b) ELSE -(a \div (-b))

\* int(a / b * 100) for a >= 0, b > 0.
Percent(a, b) == (a * 100) \div b

\* Python slice audio_data[s:e] of a buffer of n samples, s, e >= 0, as the
\* half-open interval of sample indices it holds.
SliceLo(s, n) == Min(s, n)
SliceHi(s, e, n) == Max(SliceLo(s, n), Min(e, n))
SliceLen(s, e, n) == SliceHi(s, e, n) - SliceLo(s, n)

RECURSIVE SumSeq(_)
SumSeq(s) == IF s = << >> THEN 0 ELSE Head(s) + SumSeq(Tail(s))

\* ------------------------------------------------------- volume analysis
\* audio_data is a function 0..n-1 -> amplitude level.
AudioLen(audio_data) == Cardinality(DOMAIN audio_data)

\* Sum of squares of audio_data[lo + i .. lo + i + w - 1]; for a fixed w it
\* orders windows as sqrt(mean(window ** 2)) does.
RECURSIVE Energy(_, _, _)
Energy(audio_data, from, w) ==
    IF w <= 0 THEN 0
    ELSE audio_data[from] * audio_data[from] + Energy(audio_data, from + 1, w - 1)

\* analyze_audio_volume on the slice of audio_data starting at sample lo and
\* holding len samples; window_size in hundredths of a second.  Returns the
\* profile as a sequence of [time_point (ticks), rms (energy)].
AnalyzeAudioVolume(audio_data, lo, len, window_size) ==
    LET window_samples == (window_size * SampleRate) \div 100
        step_samples == Max(1, window_samples \div 4)
        span == len - window_samples
        count == IF span <= 0 THEN 0 ELSE (span + step_samples - 1) \div step_samples
    IN  [k \in 1..count |->
            [time_point |-> SampleTime((k - 1) * step_samples),
             rms |-> Energy(audio_data, lo + (k - 1) * step_samples, window_samples)]]

\* np.argmin: the first index holding the smallest value.
ArgMin(profile) ==
    CHOOSE k \in 1..Len(profile) :
        /\ \A j \in 1..Len(profile) : profile[k].rms <= profile[j].rms
        /\ \A j \in 1..(k - 1) : profile[j].rms > profile[k].rms

\* find_optimal_split_point with the two early returns (lines 140-141 and
\* 146-147) snapping target_time to the nearest sample.
FindOptimalSplitPointSnappedFallback(audio_data, target_time, search_range) ==
    LET n == AudioLen(audio_data)
        start_time == Max(0, target_time - search_range \div 2)
        end_time == Min(SampleTime(n), target_time + search_range \div 2)
        start_sample == PyInt(start_time)
        end_sample == PyInt(end_time)
        lo == SliceLo(start_sample, n)
        len == SliceLen(start_sample, end_sample, n)
        profile == AnalyzeAudioVolume(audio_data, lo, len, SmartWindow)
    IN  IF len = 0 THEN SampleTime(PyRound(target_time))
        ELSE IF Len(profile) = 0 THEN SampleTime(PyRound(target_time))
        ELSE SampleTime(PyRound(start_time + profile[ArgMin(profile)].time_point))

\* find_optimal_split_point; target_time and search_range in ticks
\* (search_range is a whole number of ticks and even, so search_range / 2
\* is a whole number of ticks).
FindOptimalSplitPoint(audio_data, target_time, search_range) ==
    LET n == AudioLen(audio_data)
        start_time == Max(0, target_time - search_range \div 2)
        end_time == Min(SampleTime(n), target_time + search_range \div 2)
        start_sample == PyInt(start_time)
        end_sample == PyInt(end_time)
        lo == SliceLo(start_sample, n)
        len == SliceLen(start_sample, end_sample, n)
        profile == AnalyzeAudioVolume(audio_data, lo, len, SmartWindow)
    IN  IF len = 0 THEN target_time
        ELSE IF Len(profile) = 0 THEN target_time
        ELSE SampleTime(PyRound(start_time + profile[ArgMin(profile)].time_point))

\* Lines 292-293 and 154-155: the time of the sample nearest to t.
Snap(t) == SampleTime(PyRound(t))

\* ---------------------------------------------------------------- planner
\* Lines 284-295 and 373-384 with search_range taken as the half width of the
\* window the locator searches.
NextBoundaryHalfWidth(audio_data, target_time, smart_split, search_range) ==
    IF smart_split
    THEN FindOptimalSplitPoint(audio_data, target_time, 2 * search_range)
    ELSE SampleTime(PyRound(target_time))

\* One boundary of the walk (lines 284-295 and 373-384): the locator in smart
\* mode, the target snapped to the nearest sample otherwise.
NextBoundary(audio_data, target_time, smart_split, search_range) ==
    IF smart_split
    THEN FindOptimalSplitPoint(audio_data, target_time, search_range)
    ELSE SampleTime(PyRound(target_time))

\* Line 351 with > in place of >=.
CreateLastSegmentStrict(last_segment_duration) ==
    last_segment_duration > LastSegmentMin * TicksPerSecond

\* Line 351: the trailing segment is created when the remainder is at least
\* one second.
CreateLastSegment(last_segment_duration) ==
    last_segment_duration >= LastSegmentMin * TicksPerSecond

\* Lines 336-338 reporting the last non-positive entry instead of the first.
LastNonPositive(durations) ==
    IF \E k \in 1..Len(durations) : durations[k] <= 0
    THEN CHOOSE k \in 1..Len(durations) :
            /\ durations[k] <= 0
            /\ \A j \in (k + 1)..Len(durations) : durations[j] > 0
    ELSE 0

\* The first position (1-based) of a non-positive duration, 0 if none.
FirstNonPositive(durations) ==
    IF \E k \in 1..Len(durations) : durations[k] <= 0
    THEN CHOOSE k \in 1..Len(durations) :
            /\ durations[k] <= 0
            /\ \A j \in 1..(k - 1) : durations[j] > 0
    ELSE 0

\* ----------------------------------------------------------------- slicer
\* The segment handed to sf.write for the boundary pair (start_time, end_time):
\* the range as computed, and the samples the Python slice really holds.
Segment(index, start_sample, end_sample, n) ==
    [index |-> index,
     start_sample |-> start_sample,
     end_sample |-> end_sample,
     lo |-> SliceLo(start_sample, n),
     hi |-> SliceHi(start_sample, end_sample, n)]

\* Lines 301-310 with the end boundary taken as the last sample of the
\* segment instead of one past it.
BoundarySegmentInclusiveEnd(index, start_time, end_time, n) ==
    Segment(index, PyRound(start_time), Min(PyRound(end_time), n) - 1, n)

\* Lines 301-310 and 388-399.
BoundarySegment(index, start_time, end_time, n) ==
    Segment(index, PyRound(start_time), Min(PyRound(end_time), n), n)

\* Lines 417-423: the trailing segment of custom mode.
TrailingSegment(index, start_time, n) ==
    Segment(index, PyRound(start_time), n, n)

\* ------------------------------------------------------------ file names
\* The decimal digits of a natural number, most significant first.
RECURSIVE Digits(_)
Digits(n) == IF n < 10 THEN << n >> ELSE Append(Digits(n \div 10), n % 10)

\* The format ":03d" keeping the last digit only.
Pad3LastDigit(index) == << 0, 0, index % 10 >>

\* The format ":03d" of lines 313, 402 and 427: at least three digits,
\* padded with zeros on the left.
Pad3(index) ==
    LET d == Digits(index)
    IN  IF Len(d) >= 3 THEN d ELSE [k \in 1..3 |-> IF k <= 3 - Len(d) THEN 0 ELSE d[k - (3 - Len(d))]]

\* Lines 266-272 and 313-314: <parent>/output/<stem>_part_<index><suffix>.
OutputPath(file, index) ==
    [dir |-> "output", stem |-> "stem", part |-> Pad3(index), suffix |-> file.suffix]

\* ----------------------------------------------------------------- inputs
Files == { [exists |-> TRUE, suffix |-> ".wav"],
           [exists |-> TRUE, suffix |-> ".txt"],
           [exists |-> FALSE, suffix |-> ".wav"] }

IsSupportedFormat(file) == file.suffix \in {".mp3", ".wav"}

Durations == (-1)..MaxDur

RECURSIVE SeqsUpTo(_, _)
SeqsUpTo(S, n) ==
    IF n = 0 THEN { << >> }
    ELSE LET shorter == SeqsUpTo(S, n - 1)
         IN  shorter \cup { Append(s, x) : s \in { t \in shorter : Len(t) = n - 1 }, x \in S }

DurationLists == SeqsUpTo(Durations, MaxDurs)

\* search_range=2.0 is the default of split_audio; a caller that leaves
\* smart_split off leaves search_range alone.
DefaultSearchRange == 2 * TicksPerSecond

SearchRanges(smart) ==
    IF smart THEN { 2 * h : h \in 0..MaxHalfRange } ELSE { DefaultSearchRange }

ShortLens == 1..MaxShortLen
LongLens == (SampleRate + 1)..(SampleRate + MaxExtraLen)

\* Lengths of the audio a request loads.  Long clips (longer than a second)
\* are paired with duration lists, where the one-second rule for the trailing
\* remainder applies; a fixed split of a long clip by a duration of a few
\* ticks only repeats the walk of a short clip some hundred times.
AudioLens(custom) == IF custom THEN ShortLens \cup LongLens ELSE ShortLens

\* Audio of n samples: constant, fading out, or constant with one silent sample.
Audios(n) ==
    { [s \in 0..(n - 1) |-> 1], [s \in 0..(n - 1) |-> n - s] } \cup
    { [s \in 0..(n - 1) |-> IF s = q THEN 0 ELSE 1] : q \in 0..Min(MaxQuietPos, n - 1) }

\* Result messages; n is the number the message quotes.
Msg(kind, n, skipped) == [kind |-> kind, n |-> n, skipped |-> skipped]

Result(success, message, files) ==
    [success |-> success, message |-> message, output_files |-> files]

NoResult == Result(FALSE, Msg("none", 0, FALSE), << >>)

\* Line 212: the message built from a caught exception e.
ErrorMsg(e) == [kind |-> "error during split", n |-> 0, skipped |-> FALSE, error |-> e]

\* ------------------------------------------------------------------ state
VARIABLES
    pc,               \* position of the invocation
    entry,            \* "split_audio" or "split_audio_by_video_durations"
    file_path,        \* the input file
    segment_duration, \* None or Some(ticks)
    custom_durations, \* None or Some(list of ticks)
    smart_split,
    search_range,     \* ticks
    audio_data,       \* the loaded buffer
    split_points,     \* boundary times, ticks
    current_position, \* running position of the boundary walk, ticks
    target_time,      \* target of the boundary being computed, ticks
    optimal_time,     \* None, or Some(time find_optimal_split_point returned)
    num_segments,     \* num_segments / total_segments
    create_last_segment,
    i,                \* loop index of the writing loop
    written,          \* segments handed to sf.write, in order
    output_files,     \* indices of the paths appended to output_files
    output_dir,       \* TRUE once output_dir.mkdir ran
    progress,         \* percents passed to progress_callback, in order
    result,           \* the returned (success, message, output_files)
    disk,             \* indices of the segment files present in the output directory
    is_splitting,     \* AudioSplitterGUI.is_splitting
    selected_file,    \* AudioSplitterGUI.selected_file is set
    split_mode,       \* AudioSplitterGUI.split_mode_var
    threads,          \* the worker threads started so far, each at its position
    after_queue,      \* callbacks scheduled with root.after, in order
    refused_starts,   \* start requests that returned at line 1505
    shown,            \* the success flags show_result was called with, in order
    video_files,      \* AudioSplitterGUI.video_files
    video_durations,  \* AudioSplitterGUI.video_durations, ticks
    video_selection,  \* index of the selected row of video_tree, 0 for none
    volume_profile,   \* None, or Some(profile analyze_audio_volume returned)
    silence_regions   \* None, or Some(list find_silence_regions returned)

vars == << pc, entry, file_path, segment_duration, custom_durations, smart_split,
           search_range, audio_data, split_points, current_position, target_time,
           optimal_time, num_segments, create_last_segment, i, written, output_files, output_dir, progress, result,
           disk, is_splitting, selected_file, split_mode, threads, after_queue, refused_starts,
           shown, video_files, video_durations, video_selection, volume_profile,
           silence_regions >>

\* The state of one engine invocation (class AudioSplitter).
engine == << pc, entry, file_path, segment_duration, custom_durations, smart_split,
             search_range, audio_data, split_points, current_position, target_time,
             optimal_time, num_segments, create_last_segment, i, written, output_files,
             output_dir, progress, result, disk >>

\* The state of the application window (class AudioSplitterGUI).
gui == << is_splitting, selected_file, split_mode, threads, after_queue, refused_starts,
         shown, video_files, video_durations, video_selection >>

\* The video list of the window (lines 1054-1208).
videos == << video_files, video_durations, video_selection >>

\* What the volume analysis returned (lines 42-116).
analysis == << volume_profile, silence_regions >>

request == << entry, file_path, segment_duration, custom_durations, smart_split, search_range >>
locals == << split_points, current_position, target_time, optimal_time, num_segments, create_last_segment, i, written, output_files >>

total_duration == SampleTime(AudioLen(audio_data))

Init ==
    /\ pc = "idle"
    /\ entry = "none"
    /\ file_path = [exists |-> FALSE, suffix |-> ""]
    /\ segment_duration = None
    /\ custom_durations = None
    /\ smart_split = FALSE
    /\ search_range = 0
    /\ audio_data = << >>
    /\ split_points = << >>
    /\ current_position = 0
    /\ target_time = 0
    /\ optimal_time = None
    /\ num_segments = 0
    /\ create_last_segment = FALSE
    /\ i = 0
    /\ written = << >>
    /\ output_files = << >>
    /\ output_dir = FALSE
    /\ progress = << >>
    /\ result = NoResult
    /\ disk = { }
    /\ is_splitting = FALSE
    /\ selected_file = FALSE
    /\ split_mode = "fixed"
    /\ threads = << >>
    /\ after_queue = << >>
    /\ refused_starts = 0
    /\ shown = << >>
    /\ video_files = << >>
    /\ video_durations = << >>
    /\ video_selection = 0
    /\ volume_profile = None
    /\ silence_regions = None

Return(success, message, files) ==
    /\ pc' = "returned"
    /\ result' = Result(success, message, files)

\* A caller invokes split_audio(file_path, segment_duration, custom_durations, ...).
CallSplitAudio ==
    /\ pc = "idle"
    /\ \E f \in Files, d \in { None } \cup { Some(x) : x \in Durations },
          c \in { None } \cup { Some(l) : l \in DurationLists },
          s \in BOOLEAN :
        \E r \in SearchRanges(s) :
        /\ entry' = "split_audio"
        /\ file_path' = f
        /\ segment_duration' = d
        /\ custom_durations' = c
        /\ smart_split' = s
        /\ search_range' = r
    /\ pc' = "split_audio"
    /\ UNCHANGED << audio_data, locals, output_dir, progress, result >>
    /\ UNCHANGED << disk, gui, analysis >>

\* A caller invokes split_audio_by_video_durations(audio_file_path, video_durations, ...).
CallSplitByVideo ==
    /\ pc = "idle"
    /\ \E f \in Files, v \in DurationLists, s \in BOOLEAN :
        \E r \in SearchRanges(s) :
        /\ entry' = "split_audio_by_video_durations"
        /\ file_path' = f
        /\ segment_duration' = None
        /\ custom_durations' = Some(v)
        /\ smart_split' = s
        /\ search_range' = r
    /\ pc' = "by_video"
    /\ UNCHANGED << audio_data, locals, output_dir, progress, result >>
    /\ UNCHANGED << disk, gui, analysis >>

\* split_audio_by_video_durations, lines 229-252.
SplitByVideoValidate ==
    /\ pc = "by_video"
    /\ LET durations == custom_durations[1]
           bad == FirstNonPositive(durations)
       IN  IF ~file_path.exists
           THEN Return(FALSE, Msg("audio file does not exist", 0, FALSE), << >>)
           ELSE IF ~IsSupportedFormat(file_path)
           THEN Return(FALSE, Msg("unsupported audio format", 0, FALSE), << >>)
           ELSE IF Len(durations) = 0
           THEN Return(FALSE, Msg("video duration list must not be empty", 0, FALSE), << >>)
           ELSE IF bad # 0
           THEN Return(FALSE, Msg("video duration must be greater than 0", bad, FALSE), << >>)
           ELSE pc' = "split_audio" /\ UNCHANGED result
    /\ UNCHANGED << request, audio_data, locals, output_dir, progress >>
    /\ UNCHANGED << disk, gui, analysis >>

\* split_audio, lines 175-189 without the test of line 180.
SplitAudioValidateNoBothCheck ==
    /\ pc = "split_audio"
    /\ IF segment_duration = None /\ custom_durations = None
       THEN Return(FALSE, Msg("must give a duration or custom durations", 0, FALSE), << >>)
       ELSE IF ~file_path.exists
       THEN Return(FALSE, Msg("file does not exist", 0, FALSE), << >>)
       ELSE IF ~IsSupportedFormat(file_path)
       THEN Return(FALSE, Msg("unsupported file format", 0, FALSE), << >>)
       ELSE pc' = "load" /\ UNCHANGED result
    /\ UNCHANGED << request, audio_data, locals, output_dir, progress >>
    /\ UNCHANGED << disk, gui, analysis >>

\* split_audio, lines 175-189.
SplitAudioValidate ==
    /\ pc = "split_audio"
    /\ IF segment_duration = None /\ custom_durations = None
       THEN Return(FALSE, Msg("must give a duration or custom durations", 0, FALSE), << >>)
       ELSE IF segment_duration # None /\ custom_durations # None
       THEN Return(FALSE, Msg("cannot give both", 0, FALSE), << >>)
       ELSE IF ~file_path.exists
       THEN Return(FALSE, Msg("file does not exist", 0, FALSE), << >>)
       ELSE IF ~IsSupportedFormat(file_path)
       THEN Return(FALSE, Msg("unsupported file format", 0, FALSE), << >>)
       ELSE pc' = "load" /\ UNCHANGED result
    /\ UNCHANGED << request, audio_data, locals, output_dir, progress >>
    /\ UNCHANGED << disk, gui, analysis >>

\* split_audio, lines 191-209: report 0, load the audio, dispatch on the mode.
LoadAudio ==
    /\ pc = "load"
    /\ progress' = Append(progress, 0)
    /\ \E n \in AudioLens(custom_durations # None) : audio_data' \in Audios(n)
    /\ pc' = IF custom_durations # None THEN "custom" ELSE "fixed"
    /\ UNCHANGED << request, locals, output_dir, result >>
    /\ UNCHANGED << disk, gui, analysis >>

\* _split_audio_fixed, lines 259-297: validation, num_segments, output
\* directory and the boundary plan.  segment_duration = 0 raises
\* ZeroDivisionError at line 263, which split_audio (line 211) turns into a
\* failure result.
SplitFixedPlan ==
    /\ pc = "fixed"
    /\ LET d == segment_duration[1]
           n == PyCeilDiv(total_duration, d)
       IN  IF d >= total_duration
           THEN /\ Return(FALSE, Msg("duration greater than or equal to total duration", 0, FALSE), << >>)
                /\ UNCHANGED << locals, output_dir >>
           ELSE IF d = 0
           THEN /\ Return(FALSE, Msg("error during split", 0, FALSE), << >>)
                /\ UNCHANGED << locals, output_dir >>
           ELSE /\ num_segments' = n
                /\ output_dir' = TRUE
                /\ split_points' = << 0 >>
                /\ current_position' = 0
                /\ i' = 1
                /\ pc' = "fixed_walk"
                /\ UNCHANGED << target_time, optimal_time, create_last_segment,
                                written, output_files, result >>
    /\ UNCHANGED << request, audio_data, progress >>
    /\ UNCHANGED << disk, gui, analysis >>

\* _split_audio_fixed, lines 281-295: one iteration of the boundary walk.
SplitFixedWalk ==
    /\ pc = "fixed_walk"
    /\ i < num_segments
    /\ LET t == current_position + segment_duration[1]
           b == NextBoundary(audio_data, t, smart_split, search_range)
       IN  /\ target_time' = t
           /\ optimal_time' = IF smart_split THEN Some(b) ELSE optimal_time
           /\ split_points' = Append(split_points, b)
           /\ current_position' = b
    /\ i' = i + 1
    /\ UNCHANGED << pc, request, audio_data, num_segments, create_last_segment,
                    written, output_files, output_dir, progress, result >>
    /\ UNCHANGED << disk, gui, analysis >>

\* _split_audio_fixed, line 297: the end point closes the plan.
SplitFixedWalkEnd ==
    /\ pc = "fixed_walk"
    /\ i >= num_segments
    /\ split_points' = Append(split_points, total_duration)
    /\ i' = 0
    /\ pc' = "fixed_write"
    /\ UNCHANGED << request, audio_data, current_position, target_time, optimal_time,
                    num_segments, create_last_segment, written, output_files,
                    output_dir, progress, result >>
    /\ UNCHANGED << disk, gui, analysis >>

\* _split_audio_fixed, lines 300-324: one iteration of the writing loop.
SplitFixedWrite ==
    /\ pc = "fixed_write"
    /\ i < num_segments
    /\ written' = Append(written, BoundarySegment(i + 1, split_points[i + 1],
                                                  split_points[i + 2], AudioLen(audio_data)))
    /\ output_files' = Append(output_files, i + 1)
    /\ progress' = Append(progress, Percent(i + 1, num_segments))
    /\ i' = i + 1
    /\ UNCHANGED << pc, request, audio_data, split_points, current_position,
                    target_time, optimal_time, num_segments, create_last_segment,
                    output_dir, result >>
    /\ disk' = disk \cup { i + 1 }
    /\ UNCHANGED << gui, analysis >>

\* _split_audio_fixed, lines 326-327.
SplitFixedReturn ==
    /\ pc = "fixed_write"
    /\ i >= num_segments
    /\ Return(TRUE, Msg(IF smart_split THEN "smart split done" ELSE "fixed split done",
                        num_segments, FALSE), output_files)
    /\ UNCHANGED << request, audio_data, locals, output_dir, progress >>
    /\ UNCHANGED << disk, gui, analysis >>

\* _split_audio_custom, lines 331-384: validation, trailing-segment policy,
\* output directory and the boundary plan.
SplitCustomPlan ==
    /\ pc = "custom"
    /\ LET durations == custom_durations[1]
           bad == FirstNonPositive(durations)
           specified_total == SumSeq(durations)
           last_segment_duration == total_duration - specified_total
           create == CreateLastSegment(last_segment_duration)
       IN  IF Len(durations) = 0
           THEN /\ Return(FALSE, Msg("custom durations must not be empty", 0, FALSE), << >>)
                /\ UNCHANGED << locals, output_dir >>
           ELSE IF bad # 0
           THEN /\ Return(FALSE, Msg("duration must be greater than 0", bad, FALSE), << >>)
                /\ UNCHANGED << locals, output_dir >>
           ELSE IF specified_total >= total_duration
           THEN /\ Return(FALSE, Msg("specified total greater than or equal to total duration", 0, FALSE), << >>)
                /\ UNCHANGED << locals, output_dir >>
           ELSE /\ create_last_segment' = create
                /\ num_segments' = Len(durations) + (IF create THEN 1 ELSE 0)
                /\ output_dir' = TRUE
                /\ split_points' = << 0 >>
                /\ current_position' = 0
                /\ i' = 0
                /\ pc' = "custom_walk"
                /\ UNCHANGED << target_time, optimal_time, written, output_files, result >>
    /\ UNCHANGED << request, audio_data, progress >>
    /\ UNCHANGED << disk, gui, analysis >>

\* _split_audio_custom, lines 371-384: one iteration of the boundary walk.
SplitCustomWalk ==
    /\ pc = "custom_walk"
    /\ i < Len(custom_durations[1])
    /\ LET t == current_position + custom_durations[1][i + 1]
           b == NextBoundary(audio_data, t, smart_split, search_range)
       IN  /\ target_time' = t
           /\ optimal_time' = IF smart_split THEN Some(b) ELSE optimal_time
           /\ split_points' = Append(split_points, b)
           /\ current_position' = b
    /\ i' = IF i + 1 < Len(custom_durations[1]) THEN i + 1 ELSE 0
    /\ pc' = IF i + 1 < Len(custom_durations[1]) THEN "custom_walk" ELSE "custom_write"
    /\ UNCHANGED << request, audio_data, num_segments, create_last_segment,
                    written, output_files, output_dir, progress, result >>
    /\ UNCHANGED << disk, gui, analysis >>

\* _split_audio_custom, lines 387-413: one iteration of the writing loop.
SplitCustomWrite ==
    /\ pc = "custom_write"
    /\ i < Len(custom_durations[1])
    /\ i + 2 <= Len(split_points)
    /\ written' = Append(written, BoundarySegment(i + 1, split_points[i + 1],
                                                  split_points[i + 2], AudioLen(audio_data)))
    /\ output_files' = Append(output_files, i + 1)
    /\ progress' = Append(progress, Percent(i + 1, num_segments))
    /\ i' = i + 1
    /\ pc' = IF i + 1 < Len(custom_durations[1]) THEN "custom_write" ELSE "custom_last"
    /\ UNCHANGED << request, audio_data, split_points, current_position,
                    target_time, optimal_time, num_segments, create_last_segment,
                    output_dir, result >>
    /\ disk' = disk \cup { i + 1 }
    /\ UNCHANGED << gui, analysis >>

\* _split_audio_custom, lines 416-437: the trailing segment.
SplitCustomLast ==
    /\ pc = "custom_last"
    /\ create_last_segment
    /\ written' = Append(written, TrailingSegment(Len(custom_durations[1]) + 1,
                                                  split_points[Len(split_points)],
                                                  AudioLen(audio_data)))
    /\ output_files' = Append(output_files, Len(custom_durations[1]) + 1)
    /\ progress' = Append(progress, 100)
    /\ pc' = "custom_return"
    /\ UNCHANGED << request, audio_data, split_points, current_position,
                    target_time, optimal_time, num_segments, create_last_segment,
                    i, output_dir, result >>
    /\ disk' = disk \cup { Len(custom_durations[1]) + 1 }
    /\ UNCHANGED << gui, analysis >>

\* _split_audio_custom, lines 439-445.
SplitCustomReturn ==
    /\ \/ pc = "custom_return"
       \/ pc = "custom_last" /\ ~create_last_segment
    /\ Return(TRUE, Msg(IF smart_split THEN "smart split done" ELSE "custom split done",
                        Len(output_files), ~create_last_segment), output_files)
    /\ UNCHANGED << request, audio_data, locals, output_dir, progress >>
    /\ UNCHANGED << disk, gui, analysis >>

Next ==
    \/ CallSplitAudio
    \/ CallSplitByVideo
    \/ SplitByVideoValidate
    \/ SplitAudioValidate
    \/ LoadAudio
    \/ SplitFixedPlan
    \/ SplitFixedWalk
    \/ SplitFixedWalkEnd
    \/ SplitFixedWrite
    \/ SplitFixedReturn
    \/ SplitCustomPlan
    \/ SplitCustomWalk
    \/ SplitCustomWrite
    \/ SplitCustomLast
    \/ SplitCustomReturn

Spec == Init /\ [][Next]_vars

\* ------------------------------------------- an environment that fails
\* librosa.load, sf.write and the progress callback may raise.  Every call of
\* them lies inside the try block of split_audio (lines 175-212), so the
\* exception ends the invocation at line 212.  The faults do not depend on
\* how boundaries are searched, so these requests leave smart_split off.
CallWithFaults ==
    /\ pc = "idle"
    /\ \E f \in Files, d \in { None } \cup { Some(x) : x \in Durations },
          c \in { None } \cup { Some(l) : l \in DurationLists },
          e \in { "split_audio", "split_audio_by_video_durations" } :
        /\ e = "split_audio_by_video_durations" => (d = None /\ c # None)
        /\ entry' = e
        /\ file_path' = f
        /\ segment_duration' = d
        /\ custom_durations' = c
        /\ pc' = IF e = "split_audio" THEN "split_audio" ELSE "by_video"
    /\ smart_split' = FALSE
    /\ search_range' = DefaultSearchRange
    /\ UNCHANGED << audio_data, locals, output_dir, progress, result >>
    /\ UNCHANGED << disk, gui, analysis >>

\* The writing loop is about to hand a segment to sf.write.
WritePending ==
    \/ pc = "fixed_write" /\ i < num_segments
    \/ pc = "custom_write"
    \/ pc = "custom_last" /\ create_last_segment

PendingIndex == IF pc = "custom_last" THEN Len(custom_durations[1]) + 1 ELSE i + 1

PendingSegment ==
    IF pc = "custom_last"
    THEN TrailingSegment(PendingIndex, split_points[Len(split_points)], AudioLen(audio_data))
    ELSE BoundarySegment(PendingIndex, split_points[i + 1], split_points[i + 2],
                         AudioLen(audio_data))

\* Line 193 reports 0, then librosa.load (line 196) raises.
LoadAudioFails ==
    /\ pc = "load"
    /\ progress' = Append(progress, 0)
    /\ Return(FALSE, ErrorMsg("load"), << >>)
    /\ UNCHANGED << request, audio_data, locals, output_dir >>
    /\ UNCHANGED << disk, gui, analysis >>

\* progress_callback raises at line 193.
CallbackRaisesAtLoad ==
    /\ pc = "load"
    /\ Return(FALSE, ErrorMsg("callback"), << >>)
    /\ UNCHANGED << request, audio_data, locals, output_dir, progress >>
    /\ UNCHANGED << disk, gui, analysis >>

\* sf.write raises (lines 317, 406, 431) and removes every file written so far.
WriteFailsRollback ==
    /\ WritePending
    /\ written' = Append(written, PendingSegment)
    /\ disk' = { }
    /\ Return(FALSE, ErrorMsg("write"), << >>)
    /\ UNCHANGED << request, audio_data, split_points, current_position, target_time,
                    optimal_time, num_segments, create_last_segment, i, output_files,
                    output_dir, progress, gui, analysis >>

\* sf.write raises (lines 317, 406, 431): the path is not appended to
\* output_files, the file of the segment may or may not have been created,
\* and nothing touches the files written before.
WriteFails ==
    /\ WritePending
    /\ written' = Append(written, PendingSegment)
    /\ disk' \in { disk, disk \cup { PendingIndex } }
    /\ Return(FALSE, ErrorMsg("write"), << >>)
    /\ UNCHANGED << request, audio_data, split_points, current_position, target_time,
                    optimal_time, num_segments, create_last_segment, i, output_files,
                    output_dir, progress, gui, analysis >>

\* The same failure with the paths written so far handed back in the result.
CallbackRaisesKeepsPaths ==
    /\ WritePending
    /\ written' = Append(written, PendingSegment)
    /\ output_files' = Append(output_files, PendingIndex)
    /\ disk' = disk \cup { PendingIndex }
    /\ Return(FALSE, ErrorMsg("callback"), Append(output_files, PendingIndex))
    /\ UNCHANGED << request, audio_data, split_points, current_position, target_time,
                    optimal_time, num_segments, create_last_segment, i,
                    output_dir, progress, gui, analysis >>

\* The segment is written and its path appended, then progress_callback
\* raises (lines 321-324, 410-413, 435-437).
CallbackRaisesAfterWrite ==
    /\ WritePending
    /\ written' = Append(written, PendingSegment)
    /\ output_files' = Append(output_files, PendingIndex)
    /\ disk' = disk \cup { PendingIndex }
    /\ Return(FALSE, ErrorMsg("callback"), << >>)
    /\ UNCHANGED << request, audio_data, split_points, current_position, target_time,
                    optimal_time, num_segments, create_last_segment, i,
                    output_dir, progress, gui, analysis >>

FaultNext ==
    \/ CallWithFaults
    \/ SplitByVideoValidate
    \/ SplitAudioValidate
    \/ LoadAudio
    \/ LoadAudioFails
    \/ CallbackRaisesAtLoad
    \/ SplitFixedPlan
    \/ SplitFixedWalk
    \/ SplitFixedWalkEnd
    \/ SplitFixedWrite
    \/ SplitFixedReturn
    \/ SplitCustomPlan
    \/ SplitCustomWalk
    \/ SplitCustomWrite
    \/ SplitCustomLast
    \/ SplitCustomReturn
    \/ WriteFails
    \/ CallbackRaisesAfterWrite

FaultSpec == Init /\ [][FaultNext]_vars

\* ------------------------------------------------ the application window
\* ------------------------------------------------ a second split of a file
\* The engine called for a file whose output directory still holds the
\* segment files an earlier split of the same file wrote: the directory is
\* created with exist_ok=True (lines 268 and 359) and the paths depend only
\* on the file's name and the segment's index (lines 312 and 401).
MaxEarlier == 3            \* segment files left by the earlier split

InitRerun ==
    /\ pc = "idle"
    /\ entry = "none"
    /\ file_path = [exists |-> FALSE, suffix |-> ""]
    /\ segment_duration = None
    /\ custom_durations = None
    /\ smart_split = FALSE
    /\ search_range = 0
    /\ audio_data = << >>
    /\ split_points = << >>
    /\ current_position = 0
    /\ target_time = 0
    /\ optimal_time = None
    /\ num_segments = 0
    /\ create_last_segment = FALSE
    /\ i = 0
    /\ written = << >>
    /\ output_files = << >>
    /\ output_dir = FALSE
    /\ progress = << >>
    /\ result = NoResult
    /\ \E earlier \in 0..MaxEarlier : disk = 1..earlier
    /\ is_splitting = FALSE
    /\ selected_file = FALSE
    /\ split_mode = "fixed"
    /\ threads = << >>
    /\ after_queue = << >>
    /\ refused_starts = 0
    /\ shown = << >>
    /\ video_files = << >>
    /\ video_durations = << >>
    /\ video_selection = 0
    /\ volume_profile = None
    /\ silence_regions = None

RerunSpec == InitRerun /\ [][FaultNext]_vars

\* The handlers of AudioSplitterGUI run one at a time on the Tk main thread;
\* split_audio_thread runs on a worker thread of its own.  The worker's call
\* of the engine is one step here, with any of the engine's outcomes.
MaxThreads == 3            \* worker threads started in one run
MaxRefused == 2            \* refused start requests counted

SplitModes == { "fixed", "custom", "video" }

\* select_file, lines 961-982.
SelectFile ==
    /\ selected_file' = TRUE
    /\ UNCHANGED << is_splitting, split_mode, threads, after_queue, refused_starts, shown >>
    /\ UNCHANGED << engine, videos, analysis >>

\* The mode radio buttons, lines 739-756.
OnModeChange ==
    /\ \E m \in SplitModes : split_mode' = m
    /\ UNCHANGED << is_splitting, selected_file, threads, after_queue, refused_starts, shown >>
    /\ UNCHANGED << engine, videos, analysis >>

\* start_splitting, lines 1502-1565, without the test of line 1504.
StartSplittingUnguarded ==
    /\ Len(threads) < MaxThreads
    /\ \E input_ok \in BOOLEAN :
          IF selected_file /\ input_ok
          THEN /\ is_splitting' = TRUE
               /\ threads' = Append(threads, [pc |-> "split_audio", mode |-> split_mode,
                                              success |-> FALSE])
          ELSE UNCHANGED << is_splitting, threads >>
    /\ UNCHANGED << selected_file, split_mode, after_queue, refused_starts, shown >>
    /\ UNCHANGED << engine, videos, analysis >>

\* start_splitting, lines 1502-1565: refuse while a split is running, show
\* an error for a missing file or an invalid input of the mode, otherwise set
\* is_splitting and start the worker thread.
StartSplitting ==
    /\ Len(threads) < MaxThreads
    /\ \E input_ok \in BOOLEAN :
          IF is_splitting
          THEN /\ refused_starts' = Min(refused_starts + 1, MaxRefused)
               /\ UNCHANGED << is_splitting, threads >>
          ELSE IF selected_file /\ input_ok
          THEN /\ is_splitting' = TRUE
               /\ threads' = Append(threads, [pc |-> "split_audio", mode |-> split_mode,
                                              success |-> FALSE])
               /\ UNCHANGED refused_starts
          ELSE UNCHANGED << is_splitting, threads, refused_starts >>
    /\ UNCHANGED << selected_file, split_mode, after_queue, shown >>
    /\ UNCHANGED << engine, videos, analysis >>

\* split_audio_thread, lines 1569-1577: the engine call returns or raises.
WorkerSplitDone ==
    /\ \E t \in 1..Len(threads), ok \in BOOLEAN :
          /\ threads[t].pc = "split_audio"
          /\ threads' = [threads EXCEPT ![t].pc = "post", ![t].success = ok]
    /\ UNCHANGED << is_splitting, selected_file, split_mode, after_queue, refused_starts, shown >>
    /\ UNCHANGED << engine, videos, analysis >>

\* split_audio_thread, lines 1580 and 1583: root.after(0, self.show_result, ...).
WorkerPostsResult ==
    /\ \E t \in 1..Len(threads) :
          /\ threads[t].pc = "post"
          /\ threads' = [threads EXCEPT ![t].pc = "done"]
          /\ after_queue' = Append(after_queue, threads[t].success)
    /\ UNCHANGED << is_splitting, selected_file, split_mode, refused_starts, shown >>
    /\ UNCHANGED << engine, videos, analysis >>

\* show_result without the assignment of line 1587.
ShowResultKeepsFlag ==
    /\ after_queue # << >>
    /\ after_queue' = Tail(after_queue)
    /\ shown' = Append(shown, Head(after_queue))
    /\ UNCHANGED << is_splitting, selected_file, split_mode, threads, refused_starts >>
    /\ UNCHANGED << engine, videos, analysis >>

\* show_result, lines 1585-1597, run by the main loop.
ShowResult ==
    /\ after_queue # << >>
    /\ after_queue' = Tail(after_queue)
    /\ is_splitting' = FALSE
    /\ shown' = Append(shown, Head(after_queue))
    /\ UNCHANGED << selected_file, split_mode, threads, refused_starts >>
    /\ UNCHANGED << engine, videos, analysis >>

GuiNext ==
    \/ SelectFile
    \/ OnModeChange
    \/ StartSplitting
    \/ WorkerSplitDone
    \/ WorkerPostsResult
    \/ ShowResult

GuiSpec == Init /\ [][GuiNext]_vars

\* ------------------------------------------------- snapping on its own
\* A worker thread that was started runs on: the engine's loops are bounded,
\* so its call returns or raises, and the thread then reaches its call of
\* root.after.  The Tk main loop runs every callback scheduled with
\* root.after.
GuiLiveSpec ==
    /\ GuiSpec
    /\ WF_vars(WorkerSplitDone)
    /\ WF_vars(WorkerPostsResult)
    /\ WF_vars(ShowResult)

\* The snap of lines 292-293, applied to any time and then to its own result.
MaxSnapTime == 40          \* times from -MaxSnapTime to MaxSnapTime ticks

InitSnap ==
    /\ pc = "snap"
    /\ entry = "snap"
    /\ file_path = [exists |-> FALSE, suffix |-> ""]
    /\ segment_duration = None
    /\ custom_durations = None
    /\ smart_split = FALSE
    /\ search_range = 0
    /\ audio_data = << >>
    /\ split_points = << >>
    /\ current_position = 0
    /\ target_time \in (-MaxSnapTime)..MaxSnapTime
    /\ optimal_time = None
    /\ num_segments = 0
    /\ create_last_segment = FALSE
    /\ i = 0
    /\ written = << >>
    /\ output_files = << >>
    /\ output_dir = FALSE
    /\ progress = << >>
    /\ result = NoResult
    /\ disk = { }
    /\ is_splitting = FALSE
    /\ selected_file = FALSE
    /\ split_mode = "fixed"
    /\ threads = << >>
    /\ after_queue = << >>
    /\ refused_starts = 0
    /\ shown = << >>
    /\ video_files = << >>
    /\ video_durations = << >>
    /\ video_selection = 0
    /\ volume_profile = None
    /\ silence_regions = None

\* target_sample = round(target_time * sample_rate);
\* precise_time = target_sample / sample_rate.
SnapOnce ==
    /\ pc = "snap"
    /\ current_position' = Snap(target_time)
    /\ pc' = "snapped"
    /\ UNCHANGED << request, audio_data, split_points, target_time, optimal_time,
                    num_segments, create_last_segment, i, written, output_files,
                    output_dir, progress, result, disk, gui, analysis >>

\* The same two lines applied to the snapped time.
SnapAgain ==
    /\ pc = "snapped"
    /\ optimal_time' = Some(Snap(current_position))
    /\ pc' = "resnapped"
    /\ UNCHANGED << request, audio_data, split_points, current_position, target_time,
                    num_segments, create_last_segment, i, written, output_files,
                    output_dir, progress, result, disk, gui, analysis >>

SnapNext ==
    \/ SnapOnce
    \/ SnapAgain

SnapSpec == InitSnap /\ [][SnapNext]_vars

\* ---------------------------------------------- the locator on its own
\* find_optimal_split_point as a function of its arguments: any audio, any
\* target_time from 0 to past the end of the audio, any search_range.
MaxTargetPast == 6         \* targets reach this many ticks past the end

InitLocator ==
    /\ pc = "locate"
    /\ entry = "find_optimal_split_point"
    /\ file_path = [exists |-> TRUE, suffix |-> ".wav"]
    /\ segment_duration = None
    /\ custom_durations = None
    /\ smart_split = TRUE
    /\ search_range \in SearchRanges(TRUE)
    /\ \E n \in ShortLens :
          /\ audio_data \in Audios(n)
          /\ target_time \in 0..(SampleTime(n) + MaxTargetPast)
    /\ optimal_time = None
    /\ split_points = << >>
    /\ current_position = 0
    /\ num_segments = 0
    /\ create_last_segment = FALSE
    /\ i = 0
    /\ written = << >>
    /\ output_files = << >>
    /\ output_dir = FALSE
    /\ progress = << >>
    /\ result = NoResult
    /\ disk = { }
    /\ is_splitting = FALSE
    /\ selected_file = FALSE
    /\ split_mode = "fixed"
    /\ threads = << >>
    /\ after_queue = << >>
    /\ refused_starts = 0
    /\ shown = << >>
    /\ video_files = << >>
    /\ video_durations = << >>
    /\ video_selection = 0
    /\ volume_profile = None
    /\ silence_regions = None

\* One call of find_optimal_split_point(audio_data, sample_rate, target_time, search_range).
Locate ==
    /\ pc = "locate"
    /\ optimal_time' = Some(FindOptimalSplitPoint(audio_data, target_time, search_range))
    /\ pc' = "located"
    /\ UNCHANGED << request, audio_data, split_points, current_position, target_time,
                    num_segments, create_last_segment, i, written, output_files,
                    output_dir, progress, result >>
    /\ UNCHANGED << disk, gui, analysis >>

LocatorNext == Locate

LocatorSpec == InitLocator /\ [][LocatorNext]_vars

\* ------------------------------------------- the volume analysis on its own
\* analyze_audio_volume and find_silence_regions with their default
\* arguments, as the window calls them (lines 553 and 562), on audio made of
\* alternating silent and loud runs.  Amplitudes are in hundredths of full
\* scale.
DefaultWindow == 2         \* window_size=0.02, hundredths of a second
SilenceThreshold == 1      \* silence_threshold=0.01, hundredths of full scale
MinSilenceDuration == 10   \* min_silence_duration=0.1, hundredths of a second
Loud == 100                \* amplitude of a loud run, hundredths of full scale

MaxRuns == 4               \* runs of one audio
MaxShortRun == 1           \* short runs last 1..MaxShortRun samples
MaxLongSteps == 2          \* long runs last LongRun + 0..MaxLongSteps analysis steps

WindowSamples(window_size) == (window_size * SampleRate) \div 100

\* The shortest long run: MinSilenceDuration and half a window.
LongRun == (MinSilenceDuration * SampleRate) \div 100 + WindowSamples(DefaultWindow) \div 2

RunLens ==
    (1..MaxShortRun) \cup { WindowSamples(DefaultWindow) }
        \cup { LongRun + e * Max(1, WindowSamples(DefaultWindow) \div 4) :
                 e \in 0..MaxLongSteps }

\* The audio of the runs: run k fills samples RunStart(runs, k) up to
\* RunStart(runs, k + 1), silent and loud runs alternating.
RECURSIVE RunStart(_, _)
RunStart(runs, k) == IF k <= 1 THEN 0 ELSE RunStart(runs, k - 1) + runs[k - 1]

RunAudio(runs, first_silent) ==
    [s \in 0..(RunStart(runs, Len(runs) + 1) - 1) |->
        LET k == CHOOSE r \in 1..Len(runs) :
                     RunStart(runs, r) <= s /\ s < RunStart(runs, r + 1)
        IN  IF (k % 2 = 1) = first_silent THEN 0 ELSE Loud]

\* rms < silence_threshold (line 89), for the sum of squares of a window:
\* sqrt(sum / W) < threshold is sum < threshold^2 x W.
IsSilent(rms, window_size) ==
    rms < SilenceThreshold * SilenceThreshold * WindowSamples(window_size)

\* silence_end - silence_start >= min_silence_duration (lines 106 and 113).
LongEnough(silence_start, silence_end) ==
    (silence_end - silence_start) * 100 >= MinSilenceDuration * TicksPerSecond

\* The same test with > in place of >=.
KeepRegionStrict(regions, silence_start, silence_end) ==
    IF (silence_end - silence_start) * 100 > MinSilenceDuration * TicksPerSecond
    THEN Append(regions, [start |-> silence_start, end |-> silence_end])
    ELSE regions

\* Lines 106-107 and 113-114: the region is kept when it is long enough.
KeepRegion(regions, silence_start, silence_end) ==
    IF LongEnough(silence_start, silence_end)
    THEN Append(regions, [start |-> silence_start, end |-> silence_end])
    ELSE regions

\* The loop of lines 96-107 from point k on, then lines 110-114.
RECURSIVE SilenceScan(_, _, _, _, _)
SilenceScan(profile, k, in_silence, silence_start, regions) ==
    IF k > Len(profile)
    THEN IF in_silence
         THEN KeepRegion(regions, silence_start,
                         IF Len(profile) > 0 THEN profile[Len(profile)].time_point ELSE 0)
         ELSE regions
    ELSE LET is_silent == IsSilent(profile[k].rms, DefaultWindow)
         IN  IF is_silent /\ ~in_silence
             THEN SilenceScan(profile, k + 1, TRUE, profile[k].time_point, regions)
             ELSE IF ~is_silent /\ in_silence
             THEN SilenceScan(profile, k + 1, FALSE, silence_start,
                              KeepRegion(regions, silence_start, profile[k].time_point))
             ELSE SilenceScan(profile, k + 1, in_silence, silence_start, regions)

\* find_silence_regions(audio_data, sample_rate), lines 73-116.
FindSilenceRegions(audio) ==
    SilenceScan(AnalyzeAudioVolume(audio, 0, AudioLen(audio), DefaultWindow),
                1, FALSE, 0, << >>)

InitAnalysis ==
    /\ pc = "analyze"
    /\ entry = "analyze_audio_volume"
    /\ file_path = [exists |-> TRUE, suffix |-> ".wav"]
    /\ segment_duration = None
    /\ custom_durations = None
    /\ smart_split = FALSE
    /\ search_range = 0
    /\ \E runs \in SeqsUpTo(RunLens, MaxRuns), first_silent \in BOOLEAN :
          /\ runs # << >>
          /\ audio_data = RunAudio(runs, first_silent)
    /\ split_points = << >>
    /\ current_position = 0
    /\ target_time = 0
    /\ optimal_time = None
    /\ num_segments = 0
    /\ create_last_segment = FALSE
    /\ i = 0
    /\ written = << >>
    /\ output_files = << >>
    /\ output_dir = FALSE
    /\ progress = << >>
    /\ result = NoResult
    /\ disk = { }
    /\ is_splitting = FALSE
    /\ selected_file = TRUE
    /\ split_mode = "fixed"
    /\ threads = << >>
    /\ after_queue = << >>
    /\ refused_starts = 0
    /\ shown = << >>
    /\ video_files = << >>
    /\ video_durations = << >>
    /\ video_selection = 0
    /\ volume_profile = None
    /\ silence_regions = None

\* analyze_audio_volume(self.audio_data, self.sample_rate), line 553.
AnalyzeVolume ==
    /\ pc = "analyze"
    /\ volume_profile' =
           Some(AnalyzeAudioVolume(audio_data, 0, AudioLen(audio_data), DefaultWindow))
    /\ pc' = "find_silence"
    /\ UNCHANGED silence_regions
    /\ UNCHANGED << request, audio_data, locals, output_dir, progress, result, disk, gui >>

\* find_silence_regions(self.audio_data, self.sample_rate), line 562.
FindSilence ==
    /\ pc = "find_silence"
    /\ silence_regions' = Some(FindSilenceRegions(audio_data))
    /\ pc' = "analyzed"
    /\ UNCHANGED volume_profile
    /\ UNCHANGED << request, audio_data, locals, output_dir, progress, result, disk, gui >>

AnalysisNext ==
    \/ AnalyzeVolume
    \/ FindSilence

AnalysisSpec == InitAnalysis /\ [][AnalysisNext]_vars

\* --------------------------------------------- smart walks of longer clips
\* _split_audio_fixed and _split_audio_custom from the loaded buffer on, with
\* smart_split on and clips, durations and search ranges large enough for the
\* locator's window to hold more samples than its analysis window.
MaxSmartLen == 30          \* clips of MaxSmartLen - 1 .. MaxSmartLen samples
MaxSmartDur == 14          \* durations of MaxSmartDur - 3 .. MaxSmartDur ticks
MaxSmartHalf == 12         \* search_range / 2 of MaxSmartHalf - 4 .. MaxSmartHalf ticks

SmartLens == (MaxSmartLen - 1)..MaxSmartLen
SmartDurs == (MaxSmartDur - 3)..MaxSmartDur
SmartRanges == { 2 * h : h \in (MaxSmartHalf - 4)..MaxSmartHalf }

InitSmart ==
    /\ pc \in { "fixed", "custom" }
    /\ entry = "split_audio"
    /\ file_path = [exists |-> TRUE, suffix |-> ".wav"]
    /\ \/ /\ pc = "fixed"
          /\ segment_duration \in { Some(d) : d \in SmartDurs }
          /\ custom_durations = None
       \/ /\ pc = "custom"
          /\ segment_duration = None
          /\ custom_durations \in { Some(l) : l \in SeqsUpTo(SmartDurs, MaxDurs) \ { << >> } }
    /\ smart_split = TRUE
    /\ search_range \in SmartRanges
    /\ \E n \in SmartLens : audio_data \in Audios(n)
    /\ split_points = << >>
    /\ current_position = 0
    /\ target_time = 0
    /\ optimal_time = None
    /\ num_segments = 0
    /\ create_last_segment = FALSE
    /\ i = 0
    /\ written = << >>
    /\ output_files = << >>
    /\ output_dir = FALSE
    /\ progress = << 0 >>
    /\ result = NoResult
    /\ disk = { }
    /\ is_splitting = FALSE
    /\ selected_file = FALSE
    /\ split_mode = "fixed"
    /\ threads = << >>
    /\ after_queue = << >>
    /\ refused_starts = 0
    /\ shown = << >>
    /\ video_files = << >>
    /\ video_durations = << >>
    /\ video_selection = 0
    /\ volume_profile = None
    /\ silence_regions = None

\* The clips are shorter than a second, so no trailing segment is written.
SmartNext ==
    \/ SplitFixedPlan
    \/ SplitFixedWalk
    \/ SplitFixedWalkEnd
    \/ SplitFixedWrite
    \/ SplitFixedReturn
    \/ SplitCustomPlan
    \/ SplitCustomWalk
    \/ SplitCustomWrite
    \/ SplitCustomReturn

SmartSpec == InitSmart /\ [][SmartNext]_vars

\* --------------------------------------------------------- the video list
\* The handlers of the video list (lines 1054-1208).  video_files and
\* video_durations are two Python lists changed in place.  start_splitting
\* in video mode hands the list object self.video_durations to the worker
\* thread (line 1563), so while that worker runs the engine, the engine's
\* custom_durations is the same object as video_durations.  The split points
\* drawn on the waveform are recomputed from the lists by every handler that
\* calls update_waveform_split_points and are not read back by any of them.
MaxVideo == 3              \* video files 1..MaxVideo to choose from
MaxVideos == 3             \* longest video list
MaxBatch == 2              \* files chosen in one dialog

Videos == 1..MaxVideo

\* The duration get_video_duration reads from video file f, in ticks.
VideoDuration(f) == SampleTime(f)

SharesVideoList ==
    /\ custom_durations # None
    /\ pc \notin { "idle", "returned" }
    /\ \E t \in 1..Len(threads) : threads[t].pc = "split_audio" /\ threads[t].mode = "video"

\* The lists and the selection after a handler; nothing else changes.
SetVideoList(files, durations, selection) ==
    /\ video_files' = files
    /\ video_durations' = durations
    /\ video_selection' = selection
    /\ custom_durations' = IF SharesVideoList THEN Some(durations) ELSE custom_durations
    /\ UNCHANGED << pc, entry, file_path, segment_duration, smart_split, search_range,
                    audio_data, locals, output_dir, progress, result, disk >>
    /\ UNCHANGED << is_splitting, selected_file, split_mode, threads, after_queue,
                    refused_starts, shown, analysis >>

Swap(s, a, b) == [s EXCEPT ![a] = s[b], ![b] = s[a]]
Remove(s, a) == [k \in 1..(Len(s) - 1) |-> IF k < a THEN s[k] ELSE s[k + 1]]

\* The entries of batch at the positions in ok, in order.
RECURSIVE Successful(_, _, _)
Successful(batch, ok, k) ==
    IF k > Len(batch) THEN << >>
    ELSE (IF k \in ok THEN << batch[k] >> ELSE << >>) \o Successful(batch, ok, k + 1)

\* select_video_files, add_video_files and read_video_durations, lines
\* 1054-1110: every chosen file whose duration could be read is appended to
\* both lists; the rebuilt tree has no selection.
AddVideoFiles ==
    \E batch \in SeqsUpTo(Videos, MaxBatch), ok \in SUBSET (1..MaxBatch) :
        /\ batch # << >>
        /\ Len(video_files) + Len(batch) <= MaxVideos
        /\ LET added == Successful(batch, ok, 1)
           IN  SetVideoList(video_files \o added,
                            video_durations \o [k \in 1..Len(added) |-> VideoDuration(added[k])],
                            IF added = << >> THEN video_selection ELSE 0)

\* The user clicks a row of video_tree.
SelectVideo ==
    \E row \in 1..Len(video_files) :
        SetVideoList(video_files, video_durations, row)

\* clear_video_files, lines 1136-1142.
ClearVideoFiles ==
    SetVideoList(<< >>, << >>, 0)

\* move_video_up with only video_files swapped.
MoveVideoUpFilesOnly ==
    IF video_selection > 1
    THEN SetVideoList(Swap(video_files, video_selection, video_selection - 1),
                      video_durations, video_selection - 1)
    ELSE UNCHANGED vars

\* move_video_up, lines 1144-1166.
MoveVideoUp ==
    IF video_selection > 1
    THEN SetVideoList(Swap(video_files, video_selection, video_selection - 1),
                      Swap(video_durations, video_selection, video_selection - 1),
                      video_selection - 1)
    ELSE UNCHANGED vars

\* move_video_down, lines 1168-1190.
MoveVideoDown ==
    IF video_selection > 0 /\ video_selection < Len(video_files)
    THEN SetVideoList(Swap(video_files, video_selection, video_selection + 1),
                      Swap(video_durations, video_selection, video_selection + 1),
                      video_selection + 1)
    ELSE UNCHANGED vars

\* remove_selected_video, lines 1192-1208.
RemoveSelectedVideo ==
    IF video_selection > 0
    THEN SetVideoList(Remove(video_files, video_selection),
                      Remove(video_durations, video_selection), 0)
    ELSE UNCHANGED vars

VideoListNext ==
    \/ AddVideoFiles
    \/ SelectVideo
    \/ ClearVideoFiles
    \/ MoveVideoUp
    \/ MoveVideoDown
    \/ RemoveSelectedVideo

VideoListSpec == Init /\ [][VideoListNext]_vars

\* ------------------------------------- a video split and the video list
\* The engine at work on a split started in video mode while the main thread
\* goes on serving the handlers of the video list; none of them looks at
\* is_splitting.  The worker and the main thread interleave between any two
\* reads of the list, which the engine makes in the loops of lines 371 and
\* 387 through Python's list iterator: it yields entry i while i is below
\* the length the list has at that moment.
InitRace ==
    /\ pc = "custom"
    /\ entry = "split_audio"
    /\ file_path = [exists |-> TRUE, suffix |-> ".wav"]
    /\ segment_duration = None
    /\ \E files \in SeqsUpTo(Videos, MaxVideos) \ { << >> } :
          /\ video_files = files
          /\ video_durations = [k \in 1..Len(files) |-> VideoDuration(files[k])]
          /\ video_selection \in 0..Len(files)
    /\ custom_durations = Some(video_durations)
    /\ smart_split = FALSE
    /\ search_range = DefaultSearchRange
    /\ audio_data = [s \in 0..(MaxShortLen - 1) |-> 1]
    /\ split_points = << >>
    /\ current_position = 0
    /\ target_time = 0
    /\ optimal_time = None
    /\ num_segments = 0
    /\ create_last_segment = FALSE
    /\ i = 0
    /\ written = << >>
    /\ output_files = << >>
    /\ output_dir = FALSE
    /\ progress = << 0 >>
    /\ result = NoResult
    /\ disk = { }
    /\ is_splitting = TRUE
    /\ selected_file = TRUE
    /\ split_mode = "video"
    /\ threads = << [pc |-> "split_audio", mode |-> "video", success |-> FALSE] >>
    /\ after_queue = << >>
    /\ refused_starts = 0
    /\ shown = << >>
    /\ volume_profile = None
    /\ silence_regions = None

\* Line 371: the iterator of the boundary walk finds no entry i, the list
\* having shrunk, and the loop ends.
SplitCustomWalkExhausted ==
    /\ pc = "custom_walk"
    /\ i >= Len(custom_durations[1])
    /\ i' = 0
    /\ pc' = "custom_write"
    /\ UNCHANGED << request, audio_data, split_points, current_position, target_time,
                    optimal_time, num_segments, create_last_segment, written,
                    output_files, output_dir, progress, result >>
    /\ UNCHANGED << disk, gui, analysis >>

\* Line 387: the iterator of the writing loop finds no entry i.
SplitCustomWriteExhausted ==
    /\ pc = "custom_write"
    /\ i >= Len(custom_durations[1])
    /\ pc' = "custom_last"
    /\ UNCHANGED << request, audio_data, locals, output_dir, progress, result >>
    /\ UNCHANGED << disk, gui, analysis >>

\* Lines 388-389: the list has grown past the boundaries of the plan, and
\* split_points[i + 1] raises IndexError, which split_audio turns into a
\* failure result (lines 211-212).
SplitCustomWriteIndexError ==
    /\ pc = "custom_write"
    /\ i < Len(custom_durations[1])
    /\ i + 2 > Len(split_points)
    /\ Return(FALSE, ErrorMsg("IndexError"), << >>)
    /\ UNCHANGED << request, audio_data, locals, output_dir, progress >>
    /\ UNCHANGED << disk, gui, analysis >>

\* An invocation of the engine has been called and has not returned.
InvocationRunning == pc \notin { "idle", "returned" }

\* The steps of the engine, and the handlers of the video list for as long
\* as the engine is at work.
RaceNext ==
    \/ SplitCustomPlan
    \/ SplitCustomWalk
    \/ SplitCustomWalkExhausted
    \/ SplitCustomWrite
    \/ SplitCustomWriteExhausted
    \/ SplitCustomWriteIndexError
    \/ SplitCustomReturn
    \/ InvocationRunning /\ AddVideoFiles
    \/ InvocationRunning /\ SelectVideo
    \/ InvocationRunning /\ ClearVideoFiles
    \/ InvocationRunning /\ MoveVideoUp
    \/ InvocationRunning /\ MoveVideoDown
    \/ InvocationRunning /\ RemoveSelectedVideo

RaceSpec == InitRace /\ [][RaceNext]_vars

\* ------------------------------------------------- the waveform preview
\* update_waveform_split_points, lines 1375-1460: the split points drawn on
\* the waveform for the audio and the settings of the window.

\* The walk of lines 1398-1404, 1421-1434 and 1441-1454 from entry k of
\* durations on, current_position being the point before.
RECURSIVE PreviewWalk(_, _, _, _, _, _)
PreviewWalk(audio, position, durations, k, smart, range) ==
    IF k > Len(durations) THEN << >>
    ELSE LET b == NextBoundary(audio, position + durations[k], smart, range)
         IN  << b >> \o PreviewWalk(audio, b, durations, k + 1, smart, range)

\* mode is "fixed" with duration (None when the entry field does not hold a
\* number), or "custom" or "video" with durations (None when the text does
\* not parse).  self.split_points is emptied at line 1384; an exception
\* inside the try block leaves it as it is at that moment (lines 1459-1460).
UpdateWaveformSplitPoints(audio, mode, duration, durations, smart, range) ==
    IF mode = "fixed"
    THEN IF duration = None \/ duration[1] <= 0 THEN << >>
         ELSE LET segments == PyCeilDiv(SampleTime(AudioLen(audio)), duration[1])
              IN  IF smart
                  THEN << 0 >> \o PreviewWalk(audio, 0, [k \in 1..(segments - 1) |-> duration[1]],
                                              1, TRUE, range)
                  \* Lines 1406-1413 read current_position, which this branch
                  \* never assigned: the first iteration raises
                  \* UnboundLocalError.
                  ELSE << >>
    ELSE IF durations = None \/ durations[1] = << >> THEN << >>
    ELSE IF mode = "custom" /\ FirstNonPositive(durations[1]) # 0 THEN << >>
    ELSE << 0 >> \o PreviewWalk(audio, 0, durations[1], 1, smart, range)

TypeOK ==
    /\ pc \in {"idle", "split_audio", "by_video", "load", "fixed", "fixed_walk", "fixed_write", "custom_walk",
               "custom", "custom_write", "custom_last", "custom_return", "returned",
               "locate", "located", "snap", "snapped", "resnapped",
               "analyze", "find_silence", "analyzed"}
    /\ smart_split \in BOOLEAN
    /\ i \in Nat

\* ------------------------------------------------------------ vocabulary
IsFixed == segment_duration # None /\ custom_durations = None
IsCustom == segment_duration = None /\ custom_durations # None
Loaded == audio_data # << >>
Returned == pc = "returned"
Succeeded == Returned /\ result.success

\* Number of samples in the data of the k-th written segment.
Frames(k) == written[k].hi - written[k].lo

\* Number of samples in the data of the first k written segments.
RECURSIVE FramesUpTo(_)
FramesUpTo(k) == IF k = 0 THEN 0 ELSE FramesUpTo(k - 1) + Frames(k)

Abs(x) == IF x >= 0 THEN x ELSE -x

C2_FixedCountAndTotal ==
    (Succeeded /\ IsFixed /\ ~smart_split) =>
        /\ Len(written) = PyCeilDiv(total_duration, segment_duration[1])
        /\ Abs(FramesUpTo(Len(written)) - AudioLen(audio_data)) <= 1

\* ------------------------------------------------------------------- C3
\* C3: a custom or external-list request with a non-empty list, all
\* durations > 0 and sum(durations) < total_duration succeeds; with a remainder of at least one
\* second it emits len(durations) + 1 segments, the last from the last
\* boundary to the end of the buffer; with a smaller remainder it emits
\* len(durations) segments and its message notes the dropped remainder.
C3_TrailingRemainder ==
    (/\ Returned /\ IsCustom /\ Loaded
     /\ Len(custom_durations[1]) > 0
     /\ \A k \in 1..Len(custom_durations[1]) : custom_durations[1][k] > 0
     /\ SumSeq(custom_durations[1]) < total_duration) =>
        LET durations == custom_durations[1]
            remainder == total_duration - SumSeq(durations)
            last == written[Len(written)]
        IN  /\ result.success
            /\ Len(result.output_files) = Len(written)
            /\ remainder >= TicksPerSecond =>
                  /\ Len(written) = Len(durations) + 1
                  /\ last.start_sample = PyRound(split_points[Len(split_points)])
                  /\ last.end_sample = AudioLen(audio_data)
                  /\ ~result.message.skipped
            /\ remainder < TicksPerSecond =>
                  /\ Len(written) = Len(durations)
                  /\ result.message.skipped

\* A successful external-list split whose remainder is exactly one second.
C3_Witness ==
    /\ Succeeded /\ entry = "split_audio_by_video_durations"
    /\ total_duration - SumSeq(custom_durations[1]) = TicksPerSecond
    /\ Len(written) = Len(custom_durations[1]) + 1

\* ------------------------------------------------------------------- C4
\* C4: every segment handed to the output writer satisfies
\* 0 <= start_sample < end_sample <= len(buffer).
C4_SegmentsNonEmptyInBounds ==
    \A k \in 1..Len(written) :
        /\ 0 <= written[k].start_sample
        /\ written[k].start_sample < written[k].end_sample
        /\ written[k].end_sample <= AudioLen(audio_data)

\* ------------------------------------------------------------------- C5
\* The plan is complete once the writing phase is reached.
PlanComplete ==
    pc \in {"fixed_write", "custom_write", "custom_last", "custom_return"} \/ Succeeded

\* The boundaries of the plan: split_points, closed by the end of the buffer
\* when custom mode emits its trailing segment.
PlanBoundaries ==
    IF IsCustom /\ create_last_segment
    THEN Append(split_points, total_duration)
    ELSE split_points

\* C5: the boundary list of a complete plan is strictly increasing, starts at
\* 0, and ends at total_duration when a final or trailing segment is emitted,
\* or at the boundary of the last explicit duration when the remainder is
\* dropped.
C5_BoundariesStrictlyIncreasing ==
    PlanComplete =>
        /\ PlanBoundaries[1] = 0
        /\ \A k \in 1..(Len(PlanBoundaries) - 1) : PlanBoundaries[k] < PlanBoundaries[k + 1]
        /\ (IsFixed \/ create_last_segment) =>
              PlanBoundaries[Len(PlanBoundaries)] = total_duration
        /\ (IsCustom /\ ~create_last_segment) =>
              PlanBoundaries[Len(PlanBoundaries)] = split_points[Len(custom_durations[1]) + 1]

\* ------------------------------------------------------------------- C6
\* The requested duration (ticks) of the k-th segment, or None: every
\* fixed-mode segment but the last, every explicit custom segment.
RequestedDuration(k) ==
    IF IsFixed
    THEN IF k < num_segments THEN Some(segment_duration[1]) ELSE None
    ELSE IF k <= Len(custom_durations[1]) THEN Some(custom_durations[1][k]) ELSE None

\* C6: with smart = false every written segment that has a requested duration
\* holds a number of samples within one sample of duration x sample_rate.
C6_RequestedLengthWithinOneSample ==
    ~smart_split =>
        \A k \in 1..Len(written) :
            RequestedDuration(k) # None =>
                Abs(SampleTime(Frames(k)) - RequestedDuration(k)[1]) <= TicksPerSample

\* ------------------------------------------------------------------- C7
\* C7: after every successful split with smart = true the samples of all
\* emitted segments number len(buffer) to within one sample.  Stated for the
\* splits that emit segments and drop no remainder, the claim's plainest case.
C7_SmartTotalWithinOneSample ==
    (Succeeded /\ smart_split /\ Len(written) > 0 /\ (IsCustom => create_last_segment)) =>
        Abs(FramesUpTo(Len(written)) - AudioLen(audio_data)) <= 1

\* ------------------------------------------------------------------- C8
\* C8: the time find_optimal_split_point returns lies inside
\* [target_time - search_range/2, target_time + search_range/2] clamped to
\* [0, total_duration], for every target_time and every search_range.
C8_LocatorInsideWindow ==
    optimal_time # None =>
        /\ Max(0, target_time - search_range \div 2) <= optimal_time[1]
        /\ optimal_time[1] <= Min(total_duration, target_time + search_range \div 2)

\* ------------------------------------------------------------------- C9
\* C9: the time find_optimal_split_point returns is a whole number of sample
\* periods, on every return path.
C9_LocatorOnSampleGrid ==
    optimal_time # None => optimal_time[1] % TicksPerSample = 0

\* ------------------------------------------------------------------ C10
\* C10: a fixed-duration request whose segment_duration is not strictly
\* between 0 and total_duration returns a failure (whatever the wording of
\* its error), lists no output file and writes no segment.
C10_InvalidFixedDurationFails ==
    (/\ Returned /\ IsFixed /\ Loaded
     /\ (segment_duration[1] <= 0 \/ segment_duration[1] >= total_duration)) =>
        /\ ~result.success
        /\ result.output_files = << >>
        /\ written = << >>

\* ------------------------------------------------------------------ C11
\* C11: a custom-duration or external-list request whose list is empty, has
\* an entry <= 0, or sums to total_duration or more returns a failure, lists
\* no output file, creates no output directory and writes no segment; when
\* the request reaches the validation of its list (the file exists, has a
\* supported format, and no fixed duration is given as well) and an entry is
\* <= 0, the message quotes the 1-based position of the first such entry.
C11_InvalidDurationListFails ==
    (/\ Returned /\ custom_durations # None
     /\ \/ Len(custom_durations[1]) = 0
        \/ \E k \in 1..Len(custom_durations[1]) : custom_durations[1][k] <= 0
        \/ Loaded /\ SumSeq(custom_durations[1]) >= total_duration) =>
        LET durations == custom_durations[1]
            NonPositive == { k \in 1..Len(durations) : durations[k] <= 0 }
        IN  /\ ~result.success
            /\ result.output_files = << >>
            /\ ~output_dir
            /\ written = << >>
            /\ disk = { }
            /\ (/\ NonPositive # { } /\ segment_duration = None
                /\ file_path.exists /\ IsSupportedFormat(file_path)) =>
                  /\ result.message.n \in NonPositive
                  /\ \A k \in NonPositive : result.message.n <= k

\* An external-list request rejected for its second entry, the first being
\* positive.
C11_Witness ==
    /\ Returned /\ entry = "split_audio_by_video_durations"
    /\ Len(custom_durations[1]) = 2
    /\ custom_durations[1][1] > 0 /\ custom_durations[1][2] <= 0
    /\ ~result.success /\ result.message.n = 2

\* ------------------------------------------------------------------ C12
\* Positions inside _split_audio_fixed and inside _split_audio_custom.
FixedPcs == { "fixed", "fixed_walk", "fixed_write" }
CustomPcs == { "custom", "custom_walk", "custom_write", "custom_last", "custom_return" }

DegenerateRanges ==
    { k \in 1..(Len(PlanBoundaries) - 1) :
        Min(PyRound(PlanBoundaries[k + 1]), AudioLen(audio_data)) <= PyRound(PlanBoundaries[k]) }

\* C13: an invocation whose plan holds a degenerate range returns a failure
\* and has written no file for that range.
C13_DegenerateRangeIsFailure ==
    (Returned /\ DegenerateRanges # { }) =>
        /\ ~result.success
        /\ \A k \in DegenerateRanges : k \notin disk

\* ------------------------------------------------------------------ C14
\* A segment was handed to sf.write and its path was not appended to
\* output_files: the write of segment Len(written) raised.
WriteFailed == Returned /\ Len(written) > Len(output_files)

\* C14: when the write of segment k fails, the invocation returns a failure
\* whose message carries the write error, no segment after k was handed to
\* the writer or is on disk, and the files of segments 1..k-1 are on disk.
C14_WriteFailureAborts ==
    WriteFailed =>
        LET k == Len(written)
        IN  /\ ~result.success
            /\ result.message = ErrorMsg("write")
            /\ result.output_files = << >>
            /\ \A j \in 1..k : written[j].index = j
            /\ \A j \in 1..(k - 1) : j \in disk
            /\ \A j \in disk : j <= k

\* The write of the third segment failed.
C14_Witness ==
    /\ WriteFailed /\ Len(written) = 3
    /\ { 1, 2 } \subseteq disk

\* ------------------------------------------------------------------ C15
\* The request meets the preconditions of its mode: one mode is given, the
\* file exists in a supported format, a fixed duration lies strictly between
\* 0 and total_duration, a duration list is non-empty, positive and shorter
\* than the audio.
RequestValid ==
    /\ (segment_duration = None) # (custom_durations = None)
    /\ file_path.exists /\ IsSupportedFormat(file_path)
    /\ segment_duration # None =>
          /\ segment_duration[1] > 0
          /\ Loaded => segment_duration[1] < total_duration
    /\ custom_durations # None =>
          /\ Len(custom_durations[1]) > 0
          /\ \A k \in 1..Len(custom_durations[1]) : custom_durations[1][k] > 0
          /\ Loaded => SumSeq(custom_durations[1]) < total_duration

\* C15: no exception leaves split_audio or split_audio_by_video_durations,
\* and an invocation whose request is invalid, or in which loading, writing
\* or the progress callback raised, returns (False, message, []).
C15_ErrorsAreFailureResults ==
    /\ pc # "raised"
    /\ (/\ Returned
        /\ \/ ~RequestValid
           \/ WriteFailed
           \/ result.message.kind = "error during split") =>
          /\ ~result.success
          /\ result.output_files = << >>

\* ------------------------------------------------------------------ C16
\* C16: every percent reported to the progress callback is in 0..100, the
\* percents never decrease, and the last one of a successful invocation is
\* 100.
C16_ProgressMonotoneTo100 ==
    /\ \A k \in 1..Len(progress) : progress[k] \in 0..100
    /\ \A k \in 1..(Len(progress) - 1) : progress[k] <= progress[k + 1]
    /\ Succeeded => (Len(progress) > 0 /\ progress[Len(progress)] = 100)

\* ------------------------------------------------------------------ C17
\* C17: on success the k-th returned path is <stem>_part_<k as three decimal
\* digits><suffix of the input> in the output directory, the paths are
\* pairwise distinct, and there are as many as segments written.
C17_OutputPathsNumbered ==
    Succeeded =>
        LET paths == [k \in 1..Len(result.output_files) |-> OutputPath(file_path, result.output_files[k])]
        IN  /\ Len(paths) = Len(written)
            /\ \A k \in 1..Len(paths) :
                  /\ written[k].index = k
                  /\ paths[k].dir = "output"
                  /\ paths[k].suffix = file_path.suffix
                  /\ Len(paths[k].part) = 3
                  /\ \A j \in 1..3 : paths[k].part[j] \in 0..9
                  /\ 100 * paths[k].part[1] + 10 * paths[k].part[2] + paths[k].part[3] = k
            /\ \A j, k \in 1..Len(paths) : j # k => paths[j] # paths[k]

\* A successful split that returned at least twelve paths.
C17_Witness ==
    Succeeded /\ Len(result.output_files) >= 12 /\ output_dir

\* ------------------------------------------------------------------ C18
\* The worker threads that have not yet handed over their result.
InFlight == { t \in 1..Len(threads) : threads[t].pc \in { "split_audio", "post" } }

\* C18: at most one split invocation is in flight at any time.
C18_SingleSplitInFlight ==
    Cardinality(InFlight) <= 1

\* A second worker runs after the first one finished, and a start request
\* was refused while a split was running.
C18_Witness ==
    /\ Len(threads) >= 2 /\ Cardinality(InFlight) = 1
    /\ is_splitting /\ refused_starts > 0

\* ------------------------------------------------------------------ C19
\* C19: snapping a snapped time returns it unchanged, and a snapped time is a
\* whole number of sample periods.
C19_SnapIdempotent ==
    /\ pc \in { "snapped", "resnapped" } => current_position % TicksPerSample = 0
    /\ pc = "resnapped" => optimal_time[1] = current_position

\* A time that lies between two samples was snapped twice.
C19_Witness ==
    /\ pc = "resnapped"
    /\ target_time % TicksPerSample # 0
    /\ current_position # target_time

\* ------------------------------------------------------------------ C20
\* C20: in fixed mode with smart = false the sample index of the k-th
\* boundary of the walk is less than one sample away from
\* k x segment_duration x sample_rate.
C20_NoDriftInFixedWalk ==
    (pc = "fixed_walk" /\ ~smart_split) =>
        \A k \in 1..(Len(split_points) - 1) :
            Abs(SampleTime(PyRound(split_points[k + 1])) - k * segment_duration[1])
                < TicksPerSample

\* ------------------------------------------------------------------ C21
\* The samples the locator searches: search_audio of lines 135-137, as the
\* index of its first sample and its length.
SearchAudioLo ==
    SliceLo(PyInt(Max(0, target_time - search_range \div 2)), AudioLen(audio_data))
SearchAudioLen ==
    SliceLen(PyInt(Max(0, target_time - search_range \div 2)),
             PyInt(Min(total_duration, target_time + search_range \div 2)),
             AudioLen(audio_data))
SearchProfile == AnalyzeAudioVolume(audio_data, SearchAudioLo, SearchAudioLen, SmartWindow)

\* C21: when the clamped search window holds no samples, or too few for the
\* volume analysis to yield a profile point, find_optimal_split_point
\* returns target_time unchanged.
C21_EmptyWindowReturnsTarget ==
    (pc = "located" /\ (SearchAudioLen = 0 \/ Len(SearchProfile) = 0)) =>
        optimal_time[1] = target_time

\* The locator was called with a target between two samples and a window
\* that holds samples but yields no profile point.
C21_Witness ==
    /\ pc = "located"
    /\ SearchAudioLen > 0 /\ Len(SearchProfile) = 0
    /\ target_time % TicksPerSample # 0
    /\ optimal_time[1] = target_time

\* ------------------------------------------------------------------ C22
\* C22: analyze_audio_volume records exactly one point for every position
\* 0, step, 2 x step, ... whose window of W samples fits in the buffer
\* (position + W <= len(buffer)), at time position / sample_rate, with
\* step = max(1, W / 4); a buffer of exactly W samples yields one point.
C22_OnePointPerFullWindow ==
    volume_profile # None =>
        LET profile == volume_profile[1]
            window_samples == WindowSamples(DefaultWindow)
            step_samples == Max(1, window_samples \div 4)
            positions == { p \in 0..AudioLen(audio_data) :
                             /\ p % step_samples = 0
                             /\ p + window_samples <= AudioLen(audio_data) }
        IN  /\ Len(profile) = Cardinality(positions)
            /\ \A k \in 1..Len(profile) :
                   profile[k].time_point = SampleTime((k - 1) * step_samples)

\* ------------------------------------------------------------------ C23
\* The first point of the silent run that reaches the last point of the
\* profile, 0 when the last point is not silent.
TrailingSilenceFrom(profile) ==
    IF Len(profile) = 0 \/ ~IsSilent(profile[Len(profile)].rms, DefaultWindow) THEN 0
    ELSE CHOOSE f \in 1..Len(profile) :
             /\ \A j \in f..Len(profile) : IsSilent(profile[j].rms, DefaultWindow)
             /\ f > 1 => ~IsSilent(profile[f - 1].rms, DefaultWindow)

\* C23: every region find_silence_regions returns has end > start and lasts
\* at least min_silence_duration; the regions are in time order and do not
\* overlap; a silent run that reaches the end of the audio is closed at the
\* final time point and is kept exactly when it meets the minimum.
C23_SilenceRegionsWellFormed ==
    silence_regions # None =>
        LET regions == silence_regions[1]
            profile == volume_profile[1]
            f == TrailingSilenceFrom(profile)
        IN  /\ \A k \in 1..Len(regions) :
                   /\ regions[k].end > regions[k].start
                   /\ (regions[k].end - regions[k].start) * 100
                          >= MinSilenceDuration * TicksPerSecond
            /\ \A k \in 1..(Len(regions) - 1) : regions[k].end < regions[k + 1].start
            /\ f # 0 =>
                   LET trailing == [start |-> profile[f].time_point,
                                    end |-> profile[Len(profile)].time_point]
                   IN  IF LongEnough(trailing.start, trailing.end)
                       THEN regions # << >> /\ regions[Len(regions)] = trailing
                       ELSE \A k \in 1..Len(regions) : regions[k].end < trailing.start

\* Two regions were found, the second a silent run that reaches the end of
\* the audio and lasts exactly the minimum.
C23_Witness ==
    /\ silence_regions # None
    /\ Len(silence_regions[1]) = 2
    /\ TrailingSilenceFrom(volume_profile[1]) # 0
    /\ silence_regions[1][2].end
           = volume_profile[1][Len(volume_profile[1])].time_point
    /\ (silence_regions[1][2].end - silence_regions[1][2].start) * 100
           = MinSilenceDuration * TicksPerSecond

\* ------------------------------------------------------------------ C24
\* The durations the request asks for.
RequestedDurations ==
    IF IsFixed THEN { segment_duration[1] }
    ELSE { custom_durations[1][k] : k \in 1..Len(custom_durations[1]) }

\* The number of entries of split_points up to the last one the locator
\* returned: fixed mode closes its plan with total_duration (line 297).
LastLocated ==
    IF IsFixed /\ pc # "fixed_walk" THEN Len(split_points) - 1 ELSE Len(split_points)

\* search_range / 2 is smaller than every requested duration by at least one
\* sample period.
RangeBelowDurations ==
    \A d \in RequestedDurations : search_range \div 2 + TicksPerSample <= d

\* C24: in smart mode, when search_range / 2 is smaller than every requested
\* duration by at least one sample period, each boundary the locator returns
\* is strictly later than the boundary before it, and the segments written
\* for consecutive boundaries neither overlap nor swap order.
C24_SmartBoundariesAdvance ==
    (smart_split /\ split_points # << >> /\ RangeBelowDurations) =>
        /\ \A k \in 2..LastLocated : split_points[k - 1] < split_points[k]
        /\ \A k \in 1..(Len(written) - 1) : written[k].hi <= written[k + 1].lo

\* A walk of three located boundaries, the last found by the volume
\* analysis of a window that starts one sample period after the boundary
\* before it.
C24_Witness ==
    /\ smart_split /\ RangeBelowDurations
    /\ LastLocated >= 4
    /\ Len(SearchProfile) > 0
    /\ target_time - search_range \div 2 = split_points[LastLocated - 1] + TicksPerSample
    /\ Len(written) >= 3

\* ------------------------------------------------------------------ C30
\* The number of entries of s equal to x.
Count(s, x) == Cardinality({ k \in 1..Len(s) : s[k] = x })

\* C30: after any sequence of add, move-up, move-down, remove and clear,
\* video_files and video_durations have the same length and entry k of one
\* belongs to entry k of the other; a move only permutes the entries, and
\* changes nothing when the selected entry is already first (move-up) or
\* last (move-down).
C30_VideoListsStayAligned ==
    /\ [](/\ Len(video_files) = Len(video_durations)
          /\ \A k \in 1..Len(video_files) :
                 video_durations[k] = VideoDuration(video_files[k]))
    /\ [][/\ (MoveVideoUp \/ MoveVideoDown) =>
                 (\A f \in Videos : Count(video_files', f) = Count(video_files, f))
          /\ (MoveVideoUp /\ video_selection = 1) =>
                 (video_files' = video_files /\ video_durations' = video_durations)
          /\ (MoveVideoDown /\ video_selection = Len(video_files)) =>
                 (video_files' = video_files /\ video_durations' = video_durations)]_vars

\* Three different videos are listed out of the order of their numbers, the
\* first row selected, as after moving the last row up twice.
C30_Witness ==
    /\ Len(video_files) = 3
    /\ video_files[1] > video_files[2] /\ video_files[1] > video_files[3]
    /\ video_files[2] < video_files[3]
    /\ video_selection = 1

\* ------------------------------------------------------------------ C25
\* C25: the duration list a running split works on does not change while the
\* split is in flight, whatever is added to, moved in, removed from or
\* cleared from the video list meanwhile; a video-duration split that
\* succeeds has written the number of segments it planned.
C25_RunningListUnchanged ==
    /\ [][(InvocationRunning /\ custom_durations # None) =>
              custom_durations' = custom_durations]_vars
    /\ []((Succeeded /\ IsCustom) => Len(written) = num_segments)

\* ------------------------------------------------------------------ C26
\* The mode of the window that makes the request of the invocation.
RequestMode ==
    IF IsFixed THEN "fixed"
    ELSE IF entry = "split_audio_by_video_durations" THEN "video" ELSE "custom"

\* The boundaries between two written segments, or after the last written
\* segment when the remainder is dropped: split_points without the start
\* point and, in fixed mode, without the end point.
CutPoints ==
    IF IsFixed THEN SubSeq(split_points, 2, Len(split_points) - 1)
    ELSE SubSeq(split_points, 2, Len(split_points))

\* The previewed points other than the start of the audio.
PreviewedPoints ==
    LET points == UpdateWaveformSplitPoints(audio_data, RequestMode, segment_duration,
                                            custom_durations, smart_split, search_range)
    IN  IF points # << >> /\ Head(points) = 0 THEN Tail(points) ELSE points

\* C26: for the same audio, mode, durations, smart flag and search range,
\* the split points previewed on the waveform are the interior boundaries a
\* successful split cuts at, in fixed, custom and video mode.
C26_PreviewMatchesCuts ==
    Succeeded => PreviewedPoints = CutPoints

\* ------------------------------------------------------------------ C27
\* C27: every split the application starts eventually delivers exactly one
\* result to the foreground and clears is_splitting; a start request that
\* input validation rejects leaves is_splitting clear.
C27_EverySplitReportsOnce ==
    /\ [](Len(shown) + Len(after_queue) + Cardinality(InFlight) = Len(threads))
    /\ \A n \in 1..MaxThreads :
           (Len(threads) >= n) ~> (Len(shown) >= n /\ shown[n] = threads[n].success)
    /\ [](is_splitting => <>(~is_splitting))
    /\ [][(StartSplitting /\ ~is_splitting /\ threads' = threads) => ~is_splitting']_vars

\* Two splits were started one after the other, one succeeded and one
\* failed, both results were shown and the flag is clear; a start request
\* was rejected in between.
C27_Witness ==
    /\ Len(threads) >= 2 /\ Len(shown) = Len(threads)
    /\ ~is_splitting
    /\ \E a, b \in 1..Len(shown) : shown[a] /\ ~shown[b]

\* ------------------------------------------------------------------ C28
\* C28: after a successful split the segment files of that base name in the
\* output directory are exactly the returned paths; a split that yields
\* fewer segments than an earlier one leaves none of the earlier files
\* behind.
C28_DirectoryHoldsReturnedPaths ==
    Succeeded => disk = { output_files[k] : k \in 1..Len(output_files) }

\* ------------------------------------------------------------------ C29
\* C29: every failure result carries an empty list of output paths, also
\* when segment files were written before the failure; every path of a
\* success result names a file written during that same invocation.
C29_ResultPathsMatchOutcome ==
    /\ (Returned /\ ~result.success) => result.output_files = << >>
    /\ Succeeded =>
           \A k \in 1..Len(result.output_files) :
               /\ \E j \in 1..Len(written) : written[j].index = result.output_files[k]
               /\ result.output_files[k] \in disk

\* A split failed after it had written two segment files, and its result
\* names no path.
C29_Witness ==
    /\ Returned /\ ~result.success
    /\ Len(output_files) >= 2 /\ Cardinality(disk) >= 2
    /\ result.output_files = << >>

====
